---------------------------- MODULE Spec2Model ----------------------------
(* A model of the binary paintshop notebook (docs/qaoa/binary_paintshop.ipynb): *)
(* the generator spin_glass, stepped one loop iteration at a time, and the   *)
(* scoring function color_changes, stepped one loop iteration at a time.     *)
(* Car identifiers are the integers 0..n-1 as in the notebook; TLA+ sequences *)
(* are 1-based, so Python position p is index p+1 here.                       *)
EXTENDS Integers, Sequences, FiniteSets, TLC

VARIABLES
    car_sequence,          \* the argument car_sequence of both functions
    pc,                    \* where the running function is
    idx,                   \* the position of the running for-loop (1-based)
    appeared_already,      \* spin_glass: its local set
    interactions,          \* spin_glass: the triples yielded so far, in order
    paint_bitstring,       \* color_changes: its argument, a function on car ids
    painted_once,          \* color_changes: its local set
    color_sequence,        \* color_changes: its local list
    paint_change_counter,  \* color_changes: its local counter / return value
    gens,                  \* concurrent spin_glass generators: their local states
    fn_tasks,              \* ReadoutScanTask.fn: the tasks whose fn is taken
    fn_names,              \* ReadoutScanTask.fn: the strings returned so far
    store,                 \* the saved outputs: <<base_dir, fn>> -> data
    rs_pc,                 \* run_readout_scan: where the call is
    rs_task,               \* run_readout_scan: its argument task
    rs_base_dir,           \* run_readout_scan: its variable base_dir
    rs_data,               \* run_readout_scan: thetas and results of this call
    sampler_runs,          \* <<task, base_dir>> -> number of sampler.run_sweep calls
    save_calls,            \* <<task, base_dir>> -> number of recirq.save calls
    n_calls,               \* number of run_readout_scan calls made
    main_pc,               \* main: where the driver is
    main_idx,              \* main: position in data_collection_tasks (1-based)
    n_restarts,            \* number of times main was interrupted and run again
    opt_round,             \* optimization loop: restarts done
    average_cc,            \* optimization loop: the global average_cc
    beta_gamma,            \* optimization loop: the globals (beta, gamma)
    evaluations,           \* optimization loop: each restart's result and value
    measurements,          \* final sampling: results.measurements["z"]
    sample_idx,            \* final sampling: position in measurements (1-based)
    best_result,           \* final sampling: the global best_result
    best_paint_bitstring,  \* final sampling: the global best_paint_bitstring
    gamma,                 \* phase_separator: its argument gamma
    gates                  \* phase_separator: the operations yielded so far

sgVars == <<appeared_already, interactions>>
ccVars == <<paint_bitstring, painted_once, color_sequence, paint_change_counter>>
genVars == <<gens>>
fnVars == <<fn_tasks, fn_names>>
rsVars == <<store, rs_pc, rs_task, rs_base_dir, rs_data, sampler_runs, save_calls,
            n_calls, main_pc, main_idx, n_restarts>>
optVars == <<opt_round, average_cc, beta_gamma, evaluations>>
smpVars == <<measurements, sample_idx, best_result, best_paint_bitstring>>
psVars == <<gamma, gates>>

\* the state of the components other than spin_glass and color_changes
laterVars == <<genVars, fnVars, rsVars, optVars, smpVars, psVars>>

vars == <<car_sequence, pc, idx, sgVars, ccVars, laterVars>>

\* a component that does not run keeps its variables at these values
IdleGen == gens = << >>
IdleFn == fn_tasks = << >> /\ fn_names = << >>
IdleRs ==
    /\ store = << >>
    /\ rs_pc = "idle"
    /\ rs_task = << >>
    /\ rs_base_dir = "None"
    /\ rs_data = << >>
    /\ sampler_runs = << >>
    /\ save_calls = << >>
    /\ n_calls = 0
    /\ main_pc = "idle"
    /\ main_idx = 1
    /\ n_restarts = 0
IdleOpt == opt_round = 0 /\ average_cc = 0 /\ beta_gamma = 0 /\ evaluations = << >>
IdleSmp ==
    /\ measurements = << >>
    /\ sample_idx = 1
    /\ best_result = 0
    /\ best_paint_bitstring = << >>
IdlePs == gamma = 0 /\ gates = << >>
IdleSg == appeared_already = {} /\ interactions = << >>
IdleCc ==
    /\ paint_bitstring = << >>
    /\ painted_once = {}
    /\ color_sequence = << >>
    /\ paint_change_counter = 0

-----------------------------------------------------------------------------
(* Bounds of the model *)

\* car identifiers of the spin_glass runs are 0..CarPairs-1
CarPairs == 3
\* the spin_glass runs take every car sequence of at most this length
MaxLen == 6
\* car identifiers of the color_changes runs are 0..PaintPairs-1
PaintPairs == 3
\* the color_changes runs take every car sequence of at most this length
MaxColorLen == 4
\* entries of paint_bitstring are 0..MaxPaint
MaxPaint == 2

SeqsUpTo(S, n) == UNION {[1..m -> S] : m \in 0..n}

-----------------------------------------------------------------------------
(* spin_glass *)

ferromagnetic == -1
antiferromagnetic == 1

\* the sign spin_glass yields for the pair (car0, car1), car0 # car1, given the
\* set appeared_already as it is when the iteration starts
Interaction_SwappedFresh(car0, car1, appeared) ==
    IF car0 \in appeared
    THEN IF car1 \in (appeared \cup {car0}) THEN ferromagnetic ELSE antiferromagnetic
    ELSE IF car1 \in (appeared \cup {car0}) THEN ferromagnetic ELSE antiferromagnetic

Interaction(car0, car1, appeared) ==
    IF car0 \in appeared
    THEN IF car1 \in (appeared \cup {car0}) THEN ferromagnetic ELSE antiferromagnetic
    ELSE IF car1 \in (appeared \cup {car0}) THEN antiferromagnetic ELSE ferromagnetic

\* the triples spin_glass yields from the pair (k, k+1) of zip(seq, seq[1:]) on
RECURSIVE SpinGlassFrom(_, _, _)
SpinGlassFrom(seq, k, appeared) ==
    IF k >= Len(seq) THEN << >>
    ELSE IF seq[k] = seq[k + 1] THEN SpinGlassFrom(seq, k + 1, appeared)
    ELSE << <<seq[k], seq[k + 1], Interaction(seq[k], seq[k + 1], appeared)>> >>
         \o SpinGlassFrom(seq, k + 1, appeared \cup {seq[k]})

\* list(spin_glass(seq))
spin_glass(seq) == SpinGlassFrom(seq, 1, {})

InitSpinGlass ==
    /\ car_sequence \in SeqsUpTo(0..(CarPairs - 1), MaxLen)
    /\ pc = "spin_glass"
    /\ idx = 1
    /\ appeared_already = {}
    /\ interactions = << >>
    /\ paint_bitstring = << >>
    /\ painted_once = {}
    /\ color_sequence = << >>
    /\ paint_change_counter = 0
    /\ IdleGen /\ IdleFn /\ IdleRs /\ IdleOpt /\ IdleSmp /\ IdlePs

\* if car0 == car1: continue
SpinGlassContinue_Yields ==
    /\ pc = "spin_glass"
    /\ idx < Len(car_sequence)
    /\ car_sequence[idx] = car_sequence[idx + 1]
    /\ interactions' = Append(interactions,
            <<car_sequence[idx], car_sequence[idx + 1], ferromagnetic>>)
    /\ idx' = idx + 1
    /\ UNCHANGED <<laterVars, car_sequence, pc, appeared_already, ccVars>>

SpinGlassContinue ==
    /\ pc = "spin_glass"
    /\ idx < Len(car_sequence)
    /\ car_sequence[idx] = car_sequence[idx + 1]
    /\ idx' = idx + 1
    /\ UNCHANGED <<laterVars, car_sequence, pc, sgVars, ccVars>>

\* car0 in appeared_already: add car0, yield by car1's membership
SpinGlassYieldSeen_Prepends ==
    /\ pc = "spin_glass"
    /\ idx < Len(car_sequence)
    /\ car_sequence[idx] # car_sequence[idx + 1]
    /\ car_sequence[idx] \in appeared_already
    /\ appeared_already' = appeared_already \cup {car_sequence[idx]}
    /\ interactions' = << <<car_sequence[idx], car_sequence[idx + 1],
            Interaction(car_sequence[idx], car_sequence[idx + 1], appeared_already)>> >>
            \o interactions
    /\ idx' = idx + 1
    /\ UNCHANGED <<laterVars, car_sequence, pc, ccVars>>

SpinGlassYieldSeen_RejectsThird ==
    /\ pc = "spin_glass"
    /\ idx < Len(car_sequence)
    /\ car_sequence[idx] # car_sequence[idx + 1]
    /\ car_sequence[idx] \in appeared_already
    /\ Cardinality({j \in 1..(idx - 1) : car_sequence[j] = car_sequence[idx]}) < 2
    /\ appeared_already' = appeared_already \cup {car_sequence[idx]}
    /\ interactions' = Append(interactions,
            <<car_sequence[idx], car_sequence[idx + 1],
              Interaction(car_sequence[idx], car_sequence[idx + 1], appeared_already)>>)
    /\ idx' = idx + 1
    /\ UNCHANGED <<laterVars, car_sequence, pc, ccVars>>

SpinGlassYieldSeen ==
    /\ pc = "spin_glass"
    /\ idx < Len(car_sequence)
    /\ car_sequence[idx] # car_sequence[idx + 1]
    /\ car_sequence[idx] \in appeared_already
    /\ appeared_already' = appeared_already \cup {car_sequence[idx]}
    /\ interactions' = Append(interactions,
            <<car_sequence[idx], car_sequence[idx + 1],
              Interaction(car_sequence[idx], car_sequence[idx + 1], appeared_already)>>)
    /\ idx' = idx + 1
    /\ UNCHANGED <<laterVars, car_sequence, pc, ccVars>>

\* car0 not in appeared_already: add car0, yield by car1's membership
SpinGlassYieldNew_Drops ==
    /\ pc = "spin_glass"
    /\ idx < Len(car_sequence)
    /\ car_sequence[idx] # car_sequence[idx + 1]
    /\ car_sequence[idx] \notin appeared_already
    /\ appeared_already' = appeared_already \cup {car_sequence[idx]}
    /\ idx' = idx + 1
    /\ UNCHANGED <<laterVars, car_sequence, pc, interactions, ccVars>>

SpinGlassYieldNew ==
    /\ pc = "spin_glass"
    /\ idx < Len(car_sequence)
    /\ car_sequence[idx] # car_sequence[idx + 1]
    /\ car_sequence[idx] \notin appeared_already
    /\ appeared_already' = appeared_already \cup {car_sequence[idx]}
    /\ interactions' = Append(interactions,
            <<car_sequence[idx], car_sequence[idx + 1],
              Interaction(car_sequence[idx], car_sequence[idx + 1], appeared_already)>>)
    /\ idx' = idx + 1
    /\ UNCHANGED <<laterVars, car_sequence, pc, ccVars>>

\* zip(car_sequence, car_sequence[1:]) is exhausted: the generator stops
SpinGlassReturn ==
    /\ pc = "spin_glass"
    /\ idx >= Len(car_sequence)
    /\ pc' = "exhausted"
    /\ UNCHANGED <<laterVars, car_sequence, idx, sgVars, ccVars>>

NextSpinGlass ==
    \/ SpinGlassContinue
    \/ SpinGlassYieldSeen
    \/ SpinGlassYieldNew
    \/ SpinGlassReturn

SpecSpinGlass == InitSpinGlass /\ [][NextSpinGlass]_vars

-----------------------------------------------------------------------------
(* color_changes *)

\* the second car of a pair painted the color 1 whatever the first was
Not_OneColor(x) == 1

\* Python's `not x` on an integer: True (which compares equal to 1) for 0,
\* False (which compares equal to 0) for every other value
Not(x) == IF x = 0 THEN 1 ELSE 0

\* the first loop: the list color_sequence built from position k on
RECURSIVE ColorSequenceFrom(_, _, _, _)
ColorSequenceFrom(b, seq, k, painted) ==
    IF k > Len(seq) THEN << >>
    ELSE IF seq[k] \in painted
         THEN <<Not(b[seq[k]])>> \o ColorSequenceFrom(b, seq, k + 1, painted)
         ELSE <<b[seq[k]]>> \o ColorSequenceFrom(b, seq, k + 1, painted \cup {seq[k]})

\* the second loop: the pairs of zip(colors, colors[1:]) from k on that differ
RECURSIVE CountChangesFrom(_, _)
CountChangesFrom(colors, k) ==
    IF k >= Len(colors) THEN 0
    ELSE (IF colors[k] # colors[k + 1] THEN 1 ELSE 0) + CountChangesFrom(colors, k + 1)

\* color_changes(paint_bitstring, car_sequence)
color_changes(b, seq) == CountChangesFrom(ColorSequenceFrom(b, seq, 1, {}), 1)

InitColorChanges ==
    /\ car_sequence \in SeqsUpTo(0..(PaintPairs - 1), MaxColorLen)
    /\ paint_bitstring \in [0..(PaintPairs - 1) -> 0..MaxPaint]
    /\ pc = "paint"
    /\ idx = 1
    /\ painted_once = {}
    /\ color_sequence = << >>
    /\ paint_change_counter = 0
    /\ appeared_already = {}
    /\ interactions = << >>
    /\ IdleGen /\ IdleFn /\ IdleRs /\ IdleOpt /\ IdleSmp /\ IdlePs

\* car in painted_once: paint the other color
PaintSecond_SameColor ==
    /\ pc = "paint"
    /\ idx <= Len(car_sequence)
    /\ car_sequence[idx] \in painted_once
    /\ color_sequence' = Append(color_sequence, paint_bitstring[car_sequence[idx]])
    /\ idx' = idx + 1
    /\ UNCHANGED <<laterVars, car_sequence, pc, sgVars, paint_bitstring, painted_once,
                   paint_change_counter>>

PaintSecond ==
    /\ pc = "paint"
    /\ idx <= Len(car_sequence)
    /\ car_sequence[idx] \in painted_once
    /\ color_sequence' = Append(color_sequence, Not(paint_bitstring[car_sequence[idx]]))
    /\ idx' = idx + 1
    /\ UNCHANGED <<laterVars, car_sequence, pc, sgVars, paint_bitstring, painted_once,
                   paint_change_counter>>

\* car not in painted_once: paint the noted color, remember the car
PaintFirst ==
    /\ pc = "paint"
    /\ idx <= Len(car_sequence)
    /\ car_sequence[idx] \notin painted_once
    /\ color_sequence' = Append(color_sequence, paint_bitstring[car_sequence[idx]])
    /\ painted_once' = painted_once \cup {car_sequence[idx]}
    /\ idx' = idx + 1
    /\ UNCHANGED <<laterVars, car_sequence, pc, sgVars, paint_bitstring, paint_change_counter>>

\* the first loop ends: paint_change_counter = 0, the second loop starts
PaintDone ==
    /\ pc = "paint"
    /\ idx > Len(car_sequence)
    /\ paint_change_counter' = 0
    /\ pc' = "count"
    /\ idx' = 1
    /\ UNCHANGED <<laterVars, car_sequence, sgVars, paint_bitstring, painted_once, color_sequence>>

\* color0 != color1: one more change
CountChange ==
    /\ pc = "count"
    /\ idx < Len(color_sequence)
    /\ color_sequence[idx] # color_sequence[idx + 1]
    /\ paint_change_counter' = paint_change_counter + 1
    /\ idx' = idx + 1
    /\ UNCHANGED <<laterVars, car_sequence, pc, sgVars, paint_bitstring, painted_once, color_sequence>>

\* color0 == color1
CountSame ==
    /\ pc = "count"
    /\ idx < Len(color_sequence)
    /\ color_sequence[idx] = color_sequence[idx + 1]
    /\ idx' = idx + 1
    /\ UNCHANGED <<laterVars, car_sequence, pc, sgVars, ccVars>>

\* return paint_change_counter
ColorChangesReturn ==
    /\ pc = "count"
    /\ idx >= Len(color_sequence)
    /\ pc' = "returned"
    /\ UNCHANGED <<laterVars, car_sequence, idx, sgVars, ccVars>>

NextColorChanges ==
    \/ PaintSecond
    \/ PaintFirst
    \/ PaintDone
    \/ CountChange
    \/ CountSame
    \/ ColorChangesReturn

SpecColorChanges == InitColorChanges /\ [][NextColorChanges]_vars

-----------------------------------------------------------------------------
(* The notions the statements below are written in *)

\* position i holds the first occurrence of its identifier
IsFirst(seq, i) == \A j \in 1..(i - 1) : seq[j] # seq[i]

\* position i holds the second occurrence of its identifier
IsSecond(seq, i) == Cardinality({j \in 1..(i - 1) : seq[j] = seq[i]}) = 1

Occurrences(seq, x) == Cardinality({i \in 1..Len(seq) : seq[i] = x})

\* every identifier of seq appears in it exactly twice
WellFormed(seq) == \A i \in 1..Len(seq) : Occurrences(seq, seq[i]) = 2

\* the positions i <= n with seq[i] # seq[i+1], in increasing order
DifferingPairs(seq, n) ==
    SelectSeq([i \in 1..n |-> i], LAMBDA i : seq[i] # seq[i + 1])

\* the number of positions i with seq[i] = seq[i+1]
AdjacentEqual(seq) == Cardinality({i \in 1..(Len(seq) - 1) : seq[i] = seq[i + 1]})

Reverse(seq) == [i \in 1..Len(seq) |-> seq[Len(seq) + 1 - i]]

\* the triples in reverse order, each with its two identifiers swapped
ReverseSwapped(ts) == [n \in 1..Len(ts) |->
    <<ts[Len(ts) + 1 - n][2], ts[Len(ts) + 1 - n][1], ts[Len(ts) + 1 - n][3]>>]

\* every pair of positions 1..idx-1 has been processed, in both loops
Exhausted == pc = "exhausted"
Returned == pc = "returned"


-----------------------------------------------------------------------------
(* Statements about spin_glass, checked under SpecSpinGlass *)

\* the sign the occurrence rule gives the pair of positions (i, i+1)
OccurrenceSign(seq, i) ==
    IF IsFirst(seq, i) = IsFirst(seq, i + 1) THEN ferromagnetic ELSE antiferromagnetic

\* C1: for a sequence in which each identifier appears exactly twice, every
\* emitted interaction carries the ferromagnetic sign when its two positions
\* are both first or both second occurrences, and the antiferromagnetic sign
\* when exactly one of them is a first occurrence (an occurrence is first when
\* the identifier is at no earlier position, adjacent or not).
C1_OccurrenceSigns ==
    WellFormed(car_sequence) =>
        LET D == DifferingPairs(car_sequence, idx - 1)
        IN  /\ Len(interactions) = Len(D)
            /\ \A n \in 1..Len(D) :
                   interactions[n][3] = OccurrenceSign(car_sequence, D[n])

\* C3 as stated: the number of emitted interactions is (sequence length - 1)
\* minus the number of adjacent equal elements, for every sequence in which
\* each identifier appears exactly twice.
C3_CountClosedForm ==
    (Exhausted /\ WellFormed(car_sequence)) =>
        Len(interactions) = (Len(car_sequence) - 1) - AdjacentEqual(car_sequence)

\* C3 as amended: for every sequence in which each identifier appears exactly
\* twice, the number of emitted interactions is the number of adjacent position
\* pairs whose identifiers differ; when the sequence is not empty that number
\* is (length - 1) minus the number of adjacent equal elements, so a non-empty
\* sequence of length 2n without adjacent equal elements yields 2n-1.
C3_InteractionCount ==
    (Exhausted /\ WellFormed(car_sequence)) =>
        /\ Len(interactions) =
             Cardinality({i \in 1..(Len(car_sequence) - 1) :
                            car_sequence[i] # car_sequence[i + 1]})
        /\ Len(car_sequence) > 0 =>
             Len(interactions) = (Len(car_sequence) - 1) - AdjacentEqual(car_sequence)
        /\ (Len(car_sequence) > 0 /\ AdjacentEqual(car_sequence) = 0) =>
             \E n \in 1..Len(car_sequence) :
                 Len(car_sequence) = 2 * n /\ Len(interactions) = 2 * n - 1

C3_Witness ==
    /\ Exhausted
    /\ WellFormed(car_sequence)
    /\ Len(car_sequence) = 6
    /\ AdjacentEqual(car_sequence) = 1
    /\ Len(interactions) = 4

\* C4: for a sequence in which each identifier appears exactly twice, the run
\* on the reversed sequence emits the interactions of the original run in
\* reverse order, each with its two identifiers swapped and its sign kept.
C4_ReversalSymmetry ==
    (Exhausted /\ WellFormed(car_sequence)) =>
        spin_glass(Reverse(car_sequence)) = ReverseSwapped(interactions)

\* C5: the value the docstring gives: 1 when both positions are first or both
\* are second occurrences, -1 otherwise.
DocstringValue(seq, i) ==
    IF \/ IsFirst(seq, i) /\ IsFirst(seq, i + 1)
       \/ IsSecond(seq, i) /\ IsSecond(seq, i + 1)
    THEN 1 ELSE -1

\* C5: every emitted interaction has the value the docstring states: 1 when
\* both cars are the first or both the second of their pairs, -1 otherwise.
C5_DocstringValues ==
    WellFormed(car_sequence) =>
        LET D == DifferingPairs(car_sequence, idx - 1)
        IN  \A n \in 1..Len(interactions) :
                n <= Len(D) => interactions[n][3] = DocstringValue(car_sequence, D[n])

\* C6: at every point of the single pass, the triples emitted so far are, in
\* order, (sequence[i], sequence[i+1], sign) for the positions i already passed
\* whose two identifiers differ, in increasing order of i: each once, none for
\* an equal pair.
C6_OutputOrder ==
    LET D == DifferingPairs(car_sequence, idx - 1)
    IN  /\ Len(interactions) = Len(D)
        /\ \A n \in 1..Len(D) :
               /\ interactions[n][1] = car_sequence[D[n]]
               /\ interactions[n][2] = car_sequence[D[n] + 1]
               /\ interactions[n][3] \in {ferromagnetic, antiferromagnetic}

C6_Witness ==
    /\ Exhausted
    /\ AdjacentEqual(car_sequence) >= 1
    /\ Len(interactions) >= 3
    /\ \E n \in 1..(Len(interactions) - 1) : interactions[n] # interactions[n + 1]

\* C9: for the sequence [0,1,0,1] the run emits (0,1,ferromagnetic), then
\* (1,0,antiferromagnetic), then (0,1,ferromagnetic), and nothing else.
C9_Fixture ==
    car_sequence = <<0, 1, 0, 1>> =>
        /\ interactions = SubSeq(<< <<0, 1, ferromagnetic>>,
                                    <<1, 0, antiferromagnetic>>,
                                    <<0, 1, ferromagnetic>> >>, 1, idx - 1)
        /\ Exhausted => idx = 4

C9_Witness ==
    /\ Exhausted
    /\ car_sequence = <<0, 1, 0, 1>>
    /\ Len(interactions) = 3

\* C10: the run emits nothing for the empty sequence, for a sequence of one
\* element, and for [0,0].
C10_NoInteractions ==
    (Len(car_sequence) <= 1 \/ car_sequence = <<0, 0>>) => interactions = << >>

C10_Witness ==
    /\ Exhausted
    /\ car_sequence = <<0, 0>>
    /\ idx = 2
    /\ interactions = << >>

\* C11: spin_glass validates nothing and has no error outcome: for every
\* sequence, malformed or not, the run can always take its next step until the
\* pairs are exhausted, it ends having passed every pair, and it has then
\* emitted exactly one triple for each adjacent pair of differing identifiers.
C11_NoValidation ==
    /\ pc \in {"spin_glass", "exhausted"}
    /\ pc = "spin_glass" => ENABLED NextSpinGlass
    /\ Exhausted =>
         /\ idx = (IF Len(car_sequence) = 0 THEN 1 ELSE Len(car_sequence))
         /\ Len(interactions) =
              Cardinality({i \in 1..(Len(car_sequence) - 1) :
                             car_sequence[i] # car_sequence[i + 1]})

\* a malformed run: odd length, one identifier three times, another only once
C11_Witness ==
    /\ Exhausted
    /\ Len(car_sequence) = 5
    /\ \E x, y \in 0..(CarPairs - 1) :
           Occurrences(car_sequence, x) = 3 /\ Occurrences(car_sequence, y) = 1
    /\ Len(interactions) >= 3

-----------------------------------------------------------------------------
(* Statements about color_changes, checked under SpecColorChanges *)

IsBitstring(b) == \A x \in DOMAIN b : b[x] \in {0, 1}

AtMostTwice(seq) == \A i \in 1..Len(seq) : Occurrences(seq, seq[i]) <= 2

\* the spin of car pair x: +1 for color 0, -1 for color 1
Spin(b, x) == 1 - 2 * b[x]

\* the number of interactions of ts from the n-th on that b violates
RECURSIVE ViolatedFrom(_, _, _)
ViolatedFrom(ts, b, n) ==
    IF n > Len(ts) THEN 0
    ELSE ((1 + ts[n][3] * Spin(b, ts[n][1]) * Spin(b, ts[n][2])) \div 2)
         + ViolatedFrom(ts, b, n + 1)

\* C2: for a sequence in which each identifier appears exactly twice and a 0/1
\* assignment, color_changes returns the number of adjacent equal pairs plus
\* the number of interactions emitted by spin_glass that the assignment violates.
C2_CostStructure ==
    (Returned /\ WellFormed(car_sequence) /\ IsBitstring(paint_bitstring)) =>
        paint_change_counter =
            AdjacentEqual(car_sequence)
            + ViolatedFrom(spin_glass(car_sequence), paint_bitstring, 1)

\* the color the problem statement gives position i: the noted color for a
\* first occurrence, the opposite color for a second occurrence
ClaimedColor(b, seq, i) == IF IsFirst(seq, i) THEN b[seq[i]] ELSE 1 - b[seq[i]]

\* C7: for a 0/1 paint_bitstring, color_changes returns the number of positions
\* i whose color differs from that of i+1, a first occurrence having the noted
\* color and a second occurrence the opposite one; for [0,1,0,1] and first-car
\* colors [0,1] the colors are 0,1,1,0 and the count is 2.
C7_ColorChangeCount ==
    (Returned /\ IsBitstring(paint_bitstring) /\ AtMostTwice(car_sequence)) =>
        /\ paint_change_counter =
             Cardinality({i \in 1..(Len(car_sequence) - 1) :
                 ClaimedColor(paint_bitstring, car_sequence, i)
                 # ClaimedColor(paint_bitstring, car_sequence, i + 1)})
        /\ (/\ car_sequence = <<0, 1, 0, 1>>
            /\ paint_bitstring[0] = 0
            /\ paint_bitstring[1] = 1) =>
               color_sequence = <<0, 1, 1, 0>> /\ paint_change_counter = 2

C7_Witness ==
    /\ Returned
    /\ car_sequence = <<0, 1, 0, 1>>
    /\ paint_bitstring[0] = 0
    /\ paint_bitstring[1] = 1
    /\ paint_change_counter = 2

\* the bitstring with every nonzero entry replaced by 1
ZeroOrOne(b) == [x \in DOMAIN b |-> IF b[x] = 0 THEN 0 ELSE 1]

\* C8: the count depends only on which entries of paint_bitstring are zero:
\* it is the count of the bitstring with every nonzero entry replaced by 1.
C8_NonzeroIsOneColor ==
    Returned =>
        paint_change_counter = color_changes(ZeroOrOne(paint_bitstring), car_sequence)

\* the bitstring with the two colors swapped: b'[i] = 1 - b[i]
SwapColors(b) == [x \in DOMAIN b |-> 1 - b[x]]

\* C21: for a paint_bitstring of zeros and ones the count returned by
\* color_changes is the count for the bitstring with the two colors swapped,
\* whatever the car sequence.
C21_ColorSwapInvariant ==
    (Returned /\ IsBitstring(paint_bitstring)) =>
        /\ paint_change_counter =
               color_changes(SwapColors(paint_bitstring), car_sequence)
        /\ color_changes(paint_bitstring, car_sequence) =
               color_changes(SwapColors(paint_bitstring), car_sequence)

\* color_changes has returned a count of two or more for a sequence with a
\* second occurrence and a bitstring holding both colors
C21_Witness ==
    /\ Returned
    /\ IsBitstring(paint_bitstring)
    /\ paint_bitstring[0] # paint_bitstring[1]
    /\ Len(car_sequence) = 4
    /\ \E i \in 1..4 : IsSecond(car_sequence, i)
    /\ paint_change_counter >= 2

-----------------------------------------------------------------------------
(* Several spin_glass generators on the same car_sequence, their outputs    *)
(* consumed in any interleaving                                             *)

\* the number of generators created on the one car_sequence
NumInvocations == 2

\* these generators take every car sequence of at most this length
MaxGenLen == 4

Invocations == 1..NumInvocations

\* the set appeared_already that generator g reads and writes: the local
\* created by its own call
AppearedAlready_Shared(g) == UNION {gens[h].appeared_already : h \in Invocations}

AppearedAlready(g) == gens[g].appeared_already

InitGenerators ==
    /\ car_sequence \in SeqsUpTo(0..(CarPairs - 1), MaxGenLen)
    /\ gens = [g \in Invocations |->
                 [pc |-> "spin_glass", idx |-> 1,
                  appeared_already |-> {}, interactions |-> << >>]]
    /\ pc = "generators"
    /\ idx = 1
    /\ IdleSg /\ IdleCc /\ IdleFn /\ IdleRs /\ IdleOpt /\ IdleSmp /\ IdlePs

exceptGen == <<car_sequence, pc, idx, sgVars, ccVars,
               fnVars, rsVars, optVars, smpVars, psVars>>

\* next(g) passes an equal pair: continue
GenContinue(g) ==
    /\ gens[g].pc = "spin_glass"
    /\ gens[g].idx < Len(car_sequence)
    /\ car_sequence[gens[g].idx] = car_sequence[gens[g].idx + 1]
    /\ gens' = [gens EXCEPT ![g].idx = @ + 1]
    /\ UNCHANGED exceptGen

\* next(g) reaches a differing pair: add car0, yield the triple
GenYield(g) ==
    /\ gens[g].pc = "spin_glass"
    /\ gens[g].idx < Len(car_sequence)
    /\ car_sequence[gens[g].idx] # car_sequence[gens[g].idx + 1]
    /\ LET car0 == car_sequence[gens[g].idx]
           car1 == car_sequence[gens[g].idx + 1]
           seen == AppearedAlready(g)
       IN  gens' = [gens EXCEPT
                      ![g].appeared_already = seen \cup {car0},
                      ![g].interactions =
                          Append(@, <<car0, car1, Interaction(car0, car1, seen)>>),
                      ![g].idx = @ + 1]
    /\ UNCHANGED exceptGen

\* next(g) finds the pairs exhausted: StopIteration
GenReturn(g) ==
    /\ gens[g].pc = "spin_glass"
    /\ gens[g].idx >= Len(car_sequence)
    /\ gens' = [gens EXCEPT ![g].pc = "exhausted"]
    /\ UNCHANGED exceptGen

NextGenerators ==
    \E g \in Invocations : GenContinue(g) \/ GenYield(g) \/ GenReturn(g)

SpecGenerators == InitGenerators /\ [][NextGenerators]_vars

\* of two generators, the one less far has emitted a prefix of the other's
\* stream, and an exhausted one has emitted the stream of a run on its own
StreamsAgree ==
    \A g, h \in Invocations :
        /\ gens[g].idx <= gens[h].idx =>
             gens[g].interactions =
                 SubSeq(gens[h].interactions, 1, Len(gens[g].interactions))
        /\ gens[g].pc = "exhausted" => gens[g].interactions = spin_glass(car_sequence)

\* C12: no step of any generator modifies car_sequence, and however the
\* generators on one sequence are interleaved, each emits the same stream of
\* triples: none is affected by the occurrence tracking of another.
C12_PureFunction ==
    /\ [](StreamsAgree)
    /\ [][car_sequence' = car_sequence]_vars

\* one generator is exhausted, having emitted three triples or more, while
\* another has emitted some and is still running
C12_Witness ==
    \E g, h \in Invocations :
        /\ gens[g].pc = "exhausted"
        /\ Len(gens[g].interactions) >= 3
        /\ gens[h].pc = "spin_glass"
        /\ Len(gens[h].interactions) >= 1
        /\ gens[h].idx < gens[g].idx

-----------------------------------------------------------------------------
(* ReadoutScanTask.fn (docs/guide/data_collection.ipynb). A Python string is *)
(* modelled as the sequence of its characters.                              *)

\* dataset_id and device_name are strings of at most this length
MaxStrLen == 2

\* the characters dataset_id and device_name are written in
FnAlphabet == {"a", "/"}

Digits == <<"0", "1", "2", "3", "4", "5", "6", "7", "8", "9">>

\* str(n) for n >= 0
RECURSIVE NatStr(_)
NatStr(n) == IF n < 10 THEN <<Digits[n + 1]>>
             ELSE NatStr(n \div 10) \o <<Digits[(n % 10) + 1]>>

\* str(n), the formatting of an int in an f-string
IntStr(n) == IF n < 0 THEN <<"-">> \o NatStr(-n) ELSE NatStr(n)

abbrev_n_shots(n_shots) ==
    IF n_shots % 1000 = 0
    THEN IntStr(n_shots \div 1000) \o <<"k">>
    ELSE IntStr(n_shots)

abbrev_grid_qubit(qubit) == IntStr(qubit.row) \o <<"_">> \o IntStr(qubit.col)

\* ReadoutScanTask.fn
fn(task) ==
    task.dataset_id \o <<"/">>
    \o task.device_name \o <<"/">>
    \o <<"q", "-">> \o abbrev_grid_qubit(task.qubit) \o <<"/">>
    \o <<"r", "y", "_", "s", "c", "a", "n", "_">> \o IntStr(task.resolution_factor)
    \o <<"_">> \o abbrev_n_shots(task.n_shots)

\* the ReadoutScanTask instances whose fn is taken
FnTasks ==
    [dataset_id : SeqsUpTo(FnAlphabet, MaxStrLen),
     device_name : SeqsUpTo(FnAlphabet, MaxStrLen),
     n_shots : {1, 1000},
     qubit : [row : {-1, 1}, col : {0, 1}],
     resolution_factor : {1, 6}]

InitFn ==
    /\ fn_tasks \in FnTasks \X FnTasks
    /\ fn_names = << >>
    /\ car_sequence = << >>
    /\ pc = "fn"
    /\ idx = 1
    /\ IdleSg /\ IdleCc /\ IdleGen /\ IdleRs /\ IdleOpt /\ IdleSmp /\ IdlePs

\* task.fn is taken of the next task
TakeFn ==
    /\ Len(fn_names) < Len(fn_tasks)
    /\ fn_names' = Append(fn_names, fn(fn_tasks[Len(fn_names) + 1]))
    /\ UNCHANGED <<fn_tasks, car_sequence, pc, idx, sgVars, ccVars,
                   genVars, rsVars, optVars, smpVars, psVars>>

NextFn == TakeFn

SpecFn == InitFn /\ [][NextFn]_vars

\* C13: two tasks that differ in an attribute have different fn strings.
C13_FnInjective ==
    (Len(fn_names) = 2 /\ fn_tasks[1] # fn_tasks[2]) => fn_names[1] # fn_names[2]

-----------------------------------------------------------------------------
(* run_readout_scan (docs/guide/data_collection.ipynb)                       *)

\* run_readout_scan is called at most this many times
MaxCalls == 3
\* the tasks of these calls have resolution_factor 1..MaxResolution
MaxResolution == 3
\* the sampler returns one of the results 1..MaxResults
MaxResults == 2

\* os.path.expanduser(f'~/cirq-results/{EXPERIMENT_NAME}')
DEFAULT_BASE_DIR == "~/cirq-results/readout-scan"

\* the values of the parameter base_dir: None, or a directory of the caller's
BaseDirArgs == {"None", "/elsewhere"}

\* recirq.exists(task, base_dir): the output file named by task.fn is there
Exists(task, base_dir) == <<base_dir, fn(task)>> \in DOMAIN store

\* recirq.save(task, data, base_dir): the file named by task.fn holds the
\* task and the data
Saved(task, data, base_dir) ==
    (<<base_dir, fn(task)>> :> [task |-> task, data |-> data]) @@ store

\* a counter of calls per <<task, base_dir>>
Count(f, key) == IF key \in DOMAIN f THEN f[key] ELSE 0
Bump(f, key) == (key :> (Count(f, key) + 1)) @@ f

n_special_points == 5

\* the number of points of the sweep: resolution_factor * (n_special_points - 1) + 1
SweepLength_PerSpecialPoint(resolution_factor) ==
    resolution_factor * n_special_points + 1

SweepLength(resolution_factor) ==
    resolution_factor * (n_special_points - 1) + 1

\* cirq.Linspace(key, start, stop, length), length > 1: the i-th of its points
\* (i from 0) is start + (stop - start) * i / (length - 1), kept as the
\* fraction <<numerator, denominator>>
Linspace(start, stop, length) ==
    [i \in 1..length |->
        <<start * (length - 1) + (stop - start) * (i - 1), length - 1>>]

\* thetas, in units of pi/2: the sweep from -pi/2 to 3*pi/2
Thetas(resolution_factor) == Linspace(-1, 3, SweepLength(resolution_factor))

\* the tasks run_readout_scan is called with
ScanTasks ==
    [dataset_id : {<<"d">>},
     device_name : {<<"s">>},
     n_shots : {1000},
     qubit : {[row |-> 0, col |-> 0]},
     resolution_factor : 1..MaxResolution]

\* run_readout_scan(task, base_dir) is entered
RunReadoutScanEnter(task, base_dir) ==
    /\ rs_pc = "idle"
    /\ rs_task' = task
    /\ rs_base_dir' = base_dir
    /\ rs_pc' = "entered"
    /\ n_calls' = n_calls + 1
    /\ UNCHANGED <<store, rs_data, sampler_runs, save_calls>>

exceptRs == <<car_sequence, pc, idx, sgVars, ccVars,
              genVars, fnVars, optVars, smpVars, psVars>>
mainVars == <<main_pc, main_idx, n_restarts>>

\* if base_dir is None: base_dir = DEFAULT_BASE_DIR
RunReadoutScanBaseDir ==
    /\ rs_pc = "entered"
    /\ rs_base_dir' = (IF rs_base_dir = "None" THEN DEFAULT_BASE_DIR ELSE rs_base_dir)
    /\ rs_pc' = "check"
    /\ UNCHANGED <<store, rs_task, rs_data, sampler_runs, save_calls, n_calls,
                   mainVars, exceptRs>>

\* if recirq.exists(task, base_dir=base_dir): return
RunReadoutScanSkip_Resamples ==
    /\ rs_pc = "check"
    /\ Exists(rs_task, rs_base_dir)
    /\ \E results \in 1..MaxResults :
           rs_data' = [thetas |-> Thetas(rs_task.resolution_factor),
                       all_bitstrings |-> results]
    /\ sampler_runs' = Bump(sampler_runs, <<rs_task, rs_base_dir>>)
    /\ rs_pc' = "save"
    /\ UNCHANGED <<store, rs_task, rs_base_dir, save_calls, n_calls,
                   mainVars, exceptRs>>

RunReadoutScanSkip ==
    /\ rs_pc = "check"
    /\ Exists(rs_task, rs_base_dir)
    /\ rs_pc' = "idle"
    /\ UNCHANGED <<store, rs_task, rs_base_dir, rs_data, sampler_runs, save_calls,
                   n_calls, mainVars, exceptRs>>

\* the output does not exist: build the circuit, get the sampler, make the
\* theta sweep and run it
RunReadoutScanSample ==
    /\ rs_pc = "check"
    /\ ~Exists(rs_task, rs_base_dir)
    /\ \E results \in 1..MaxResults :
           rs_data' = [thetas |-> Thetas(rs_task.resolution_factor),
                       all_bitstrings |-> results]
    /\ sampler_runs' = Bump(sampler_runs, <<rs_task, rs_base_dir>>)
    /\ rs_pc' = "save"
    /\ UNCHANGED <<store, rs_task, rs_base_dir, save_calls, n_calls,
                   mainVars, exceptRs>>

\* recirq.save(task=task, data=..., base_dir=base_dir), the last statement
RunReadoutScanSave_DefaultDir ==
    /\ rs_pc = "save"
    /\ store' = Saved(rs_task, rs_data, DEFAULT_BASE_DIR)
    /\ save_calls' = Bump(save_calls, <<rs_task, DEFAULT_BASE_DIR>>)
    /\ rs_pc' = "idle"
    /\ UNCHANGED <<rs_task, rs_base_dir, rs_data, sampler_runs, n_calls,
                   mainVars, exceptRs>>

RunReadoutScanSave ==
    /\ rs_pc = "save"
    /\ store' = Saved(rs_task, rs_data, rs_base_dir)
    /\ save_calls' = Bump(save_calls, <<rs_task, rs_base_dir>>)
    /\ rs_pc' = "idle"
    /\ UNCHANGED <<rs_task, rs_base_dir, rs_data, sampler_runs, n_calls,
                   mainVars, exceptRs>>

InitReadoutScan ==
    /\ IdleRs
    /\ car_sequence = << >>
    /\ pc = "readout_scan"
    /\ idx = 1
    /\ IdleSg /\ IdleCc /\ IdleGen /\ IdleFn /\ IdleOpt /\ IdleSmp /\ IdlePs

\* some caller calls run_readout_scan with some task and base_dir
CallRunReadoutScan ==
    /\ n_calls < MaxCalls
    /\ \E task \in ScanTasks, base_dir \in BaseDirArgs :
           RunReadoutScanEnter(task, base_dir)
    /\ UNCHANGED <<mainVars, exceptRs>>

NextReadoutScan ==
    \/ CallRunReadoutScan
    \/ RunReadoutScanBaseDir
    \/ RunReadoutScanSkip
    \/ RunReadoutScanSample
    \/ RunReadoutScanSave

SpecReadoutScan == InitReadoutScan /\ [][NextReadoutScan]_vars

\* the sum of a counter over all its keys
RECURSIVE SumOver(_, _)
SumOver(f, keys) ==
    IF keys = {} THEN 0
    ELSE LET key == CHOOSE k \in keys : TRUE
         IN f[key] + SumOver(f, keys \ {key})
Total(f) == SumOver(f, DOMAIN f)

\* C14: a call whose base_dir is None checks and works under
\* DEFAULT_BASE_DIR, any other base_dir is kept; and when the output of the
\* task exists under that base_dir the call returns at once: no sampler is
\* run, recirq.save is not called, and no stored result changes.
C14_SkipExisting ==
    [][/\ rs_pc = "entered" =>
            /\ rs_pc' = "check"
            /\ rs_base_dir' = (IF rs_base_dir = "None" THEN DEFAULT_BASE_DIR
                               ELSE rs_base_dir)
       /\ (rs_pc = "check" /\ Exists(rs_task, rs_base_dir)) =>
            /\ rs_pc' = "idle"
            /\ store' = store
            /\ sampler_runs' = sampler_runs
            /\ save_calls' = save_calls]_vars

\* two calls have returned, the first with base_dir None sampled and saved,
\* the second found the output under DEFAULT_BASE_DIR
C14_Witness ==
    /\ rs_pc = "idle"
    /\ n_calls = 2
    /\ rs_base_dir = DEFAULT_BASE_DIR
    /\ Total(sampler_runs) = 1
    /\ Total(save_calls) = 1
    /\ Exists(rs_task, DEFAULT_BASE_DIR)

\* C15: a call that does not find the output runs the sampler and then
\* saves once, under the base_dir of the existence check; the output exists
\* from then on, and for one task and base_dir the sampler is run and the
\* data saved at most once over all completed calls.
C15_SaveOnce ==
    /\ \A key \in DOMAIN sampler_runs : sampler_runs[key] = 1
    /\ \A key \in DOMAIN save_calls : save_calls[key] = 1 /\ Exists(key[1], key[2])
    /\ rs_pc \in {"idle", "entered", "check"} => save_calls = sampler_runs
    /\ rs_pc = "save" =>
         /\ ~Exists(rs_task, rs_base_dir)
         /\ sampler_runs = (<<rs_task, rs_base_dir>> :> 1) @@ save_calls
         /\ <<rs_task, rs_base_dir>> \notin DOMAIN save_calls
    /\ \A key \in DOMAIN store :
         \E k \in DOMAIN save_calls :
            key = <<k[2], fn(k[1])>> /\ store[key].task = k[1]

\* three calls for one task have returned, two under one base_dir: a sampler
\* run and a save per base_dir
C15_Witness ==
    /\ rs_pc = "idle"
    /\ n_calls = 3
    /\ Cardinality({key[1] : key \in DOMAIN save_calls}) = 1
    /\ Cardinality(DOMAIN save_calls) = 2
    /\ Total(sampler_runs) = 2

\* the fractions a and b are the same number
SameNumber(a, b) == a[1] * b[2] = b[1] * a[2]

\* C19: for a resolution_factor r >= 1 the sweep has 4 * r + 1 equally
\* spaced points from -pi/2 to 3 * pi/2 (-1 to 3 in units of pi/2), and the
\* points of index 0, r, 2r, 3r, 4r are -pi/2, 0, pi/2, pi, 3 * pi/2.
C19_SpecialPoints ==
    rs_pc = "save" =>
        LET r == rs_task.resolution_factor
            thetas == rs_data.thetas
        IN  /\ r >= 1
            /\ Len(thetas) = 4 * r + 1
            /\ \A i \in 1..(4 * r + 1) : thetas[i][2] = 4 * r
            /\ \A i \in 1..(4 * r) : thetas[i + 1][1] - thetas[i][1] = 4
            /\ \A k \in 0..4 : SameNumber(thetas[k * r + 1], <<k - 1, 1>>)

C19_Witness ==
    /\ rs_pc = "save"
    /\ rs_task.resolution_factor = 3
    /\ Len(rs_data.thetas) = 13
    /\ rs_data.thetas[4] = <<0, 12>>

-----------------------------------------------------------------------------
(* main (docs/guide/data_collection.ipynb): the driver of the collection     *)

\* main is interrupted at most this many times
MaxRestarts == 1

MAX_N_QUBITS == 5

\* cg.Sycamore23.qubits[:MAX_N_QUBITS]: that many different grid qubits
Sycamore23Qubits == [i \in 1..MAX_N_QUBITS |-> [row |-> i, col |-> 2]]

dataset_id == <<"2", "0", "2", "0", "-", "0", "2", "-",
                "t", "u", "t", "o", "r", "i", "a", "l">>

\* the list of tasks of main, one per qubit
data_collection_tasks ==
    [i \in 1..MAX_N_QUBITS |->
        [dataset_id |-> dataset_id,
         device_name |-> <<"S", "y", "c", "2", "3", "-",
                           "s", "i", "m", "u", "l", "a", "t", "o", "r">>,
         n_shots |-> 40000,
         qubit |-> Sycamore23Qubits[i],
         resolution_factor |-> 6]]

InitDriver ==
    /\ store = << >>
    /\ rs_pc = "idle"
    /\ rs_task = << >>
    /\ rs_base_dir = "None"
    /\ rs_data = << >>
    /\ sampler_runs = << >>
    /\ save_calls = << >>
    /\ n_calls = 0
    /\ main_pc = "start"
    /\ main_idx = 1
    /\ n_restarts = 0
    /\ car_sequence = << >>
    /\ pc = "main"
    /\ idx = 1
    /\ IdleSg /\ IdleCc /\ IdleGen /\ IdleFn /\ IdleOpt /\ IdleSmp /\ IdlePs

rsLocals == <<rs_pc, rs_task, rs_base_dir, rs_data>>
rsShared == <<store, sampler_runs, save_calls, n_calls>>

\* main() is run, for the first time or again after an interrupt
MainStart ==
    /\ main_pc \in {"start", "interrupted"}
    /\ main_pc' = "loop"
    /\ main_idx' = 1
    /\ UNCHANGED <<n_restarts, rsLocals, rsShared, exceptRs>>

\* for dc_task in data_collection_tasks: run_readout_scan(dc_task)
MainCall ==
    /\ main_pc = "loop"
    /\ main_idx <= Len(data_collection_tasks)
    /\ RunReadoutScanEnter(data_collection_tasks[main_idx], "None")
    /\ main_pc' = "call"
    /\ UNCHANGED <<main_idx, n_restarts, exceptRs>>

\* run_readout_scan has returned: the next task of the list
MainNextTask_SkipsOne ==
    /\ main_pc = "call"
    /\ rs_pc = "idle"
    /\ main_pc' = "loop"
    /\ main_idx' = main_idx + 2
    /\ UNCHANGED <<n_restarts, rsLocals, rsShared, exceptRs>>

MainNextTask ==
    /\ main_pc = "call"
    /\ rs_pc = "idle"
    /\ main_pc' = "loop"
    /\ main_idx' = main_idx + 1
    /\ UNCHANGED <<n_restarts, rsLocals, rsShared, exceptRs>>

\* the list is exhausted
MainReturn ==
    /\ main_pc = "loop"
    /\ main_idx > Len(data_collection_tasks)
    /\ main_pc' = "done"
    /\ UNCHANGED <<main_idx, n_restarts, rsLocals, rsShared, exceptRs>>

\* main is interrupted, anywhere in the loop or in run_readout_scan: what
\* the process held in memory is lost, the saved files stay
MainInterrupt ==
    /\ main_pc \in {"loop", "call"}
    /\ n_restarts < MaxRestarts
    /\ main_pc' = "interrupted"
    /\ n_restarts' = n_restarts + 1
    /\ rs_pc' = "idle"
    /\ rs_task' = << >>
    /\ rs_base_dir' = "None"
    /\ rs_data' = << >>
    /\ UNCHANGED <<main_idx, rsShared, exceptRs>>

NextDriver ==
    \/ MainStart
    \/ MainCall
    \/ RunReadoutScanBaseDir
    \/ RunReadoutScanSkip
    \/ RunReadoutScanSample
    \/ RunReadoutScanSave
    \/ MainNextTask
    \/ MainReturn
    \/ MainInterrupt

SpecDriver == InitDriver /\ [][NextDriver]_vars

\* the output of the i-th task of the list is saved
TaskSaved(i) == Exists(data_collection_tasks[i], DEFAULT_BASE_DIR)

\* C16: whatever interrupts there were, a run of main that completes leaves
\* every task of the list saved; tasks are handled one at a time in the
\* order of the list; a task that is saved is skipped, never sampled again,
\* and no saved output is ever overwritten or removed.
C16_Restartable ==
    /\ [](main_pc = "done" => \A i \in 1..MAX_N_QUBITS : TaskSaved(i))
    /\ [](\A i, j \in 1..MAX_N_QUBITS : (i < j /\ TaskSaved(j)) => TaskSaved(i))
    /\ [](rs_pc # "idle" =>
            /\ main_pc = "call"
            /\ rs_task = data_collection_tasks[main_idx]
            /\ \A i \in 1..(main_idx - 1) : TaskSaved(i))
    /\ [](rs_pc = "save" => ~Exists(rs_task, rs_base_dir))
    /\ [][/\ \A key \in DOMAIN store :
                key \in DOMAIN store' /\ store'[key] = store[key]
          /\ (rs_pc = "check" /\ Exists(rs_task, rs_base_dir) /\ main_pc' # "interrupted")
                => (rs_pc' = "idle" /\ sampler_runs' = sampler_runs)]_vars

\* main has completed after an interrupt that came between a task's sampler
\* run and its save, when earlier tasks were saved
C16_Witness ==
    /\ main_pc = "done"
    /\ n_restarts = 1
    /\ \E key \in DOMAIN sampler_runs : sampler_runs[key] = 2
    /\ n_calls > MAX_N_QUBITS + 1
    /\ Total(save_calls) = MAX_N_QUBITS

-----------------------------------------------------------------------------
(* The optimization restarts (docs/qaoa/binary_paintshop.ipynb)              *)

\* average_color_changes returns one of the values 0..MaxAverage
MaxAverage == 2

\* for _ in range(10)
NumRestarts == 10

\* beta_gamma is 0 for the pair drawn by np.random.rand(2) and i for
\* optimization_result.x of the i-th restart; evaluations[i] is
\* average_cc_temp of the i-th restart
InitOptimize ==
    /\ IdleOpt
    /\ car_sequence = << >>
    /\ pc = "optimize"
    /\ idx = 1
    /\ IdleSg /\ IdleCc /\ IdleGen /\ IdleFn /\ IdleRs /\ IdleSmp /\ IdlePs

exceptOpt == <<car_sequence, idx, sgVars, ccVars,
               genVars, fnVars, rsVars, smpVars, psVars>>

\* beta, gamma = np.random.rand(2); average_cc = average_color_changes(...)
OptimizeFirst ==
    /\ pc = "optimize"
    /\ beta_gamma' = 0
    /\ \E value \in 0..MaxAverage : average_cc' = value
    /\ opt_round' = 0
    /\ evaluations' = << >>
    /\ pc' = "restarts"
    /\ UNCHANGED exceptOpt

\* one restart with average_cc > average_cc_temp: the result is taken
OptimizeRestartBetter ==
    /\ pc = "restarts"
    /\ opt_round < NumRestarts
    /\ \E average_cc_temp \in 0..MaxAverage :
         /\ average_cc > average_cc_temp
         /\ evaluations' = Append(evaluations, average_cc_temp)
         /\ average_cc' = average_cc_temp
         /\ beta_gamma' = opt_round + 1
    /\ opt_round' = opt_round + 1
    /\ UNCHANGED <<pc, exceptOpt>>

\* one restart with average_cc <= average_cc_temp: nothing is assigned
OptimizeRestartNotBetter ==
    /\ pc = "restarts"
    /\ opt_round < NumRestarts
    /\ \E average_cc_temp \in 0..MaxAverage :
         /\ ~(average_cc > average_cc_temp)
         /\ evaluations' = Append(evaluations, average_cc_temp)
    /\ opt_round' = opt_round + 1
    /\ UNCHANGED <<pc, average_cc, beta_gamma, exceptOpt>>

\* the loop ends
OptimizeDone ==
    /\ pc = "restarts"
    /\ opt_round = NumRestarts
    /\ pc' = "optimized"
    /\ UNCHANGED <<optVars, exceptOpt>>

NextOptimize ==
    \/ OptimizeFirst
    \/ OptimizeRestartBetter
    \/ OptimizeRestartNotBetter
    \/ OptimizeDone

SpecOptimize == InitOptimize /\ [][NextOptimize]_vars

\* the least entry of a non-empty sequence of numbers
Least(seq) == CHOOSE v \in {seq[i] : i \in 1..Len(seq)} :
                  \A i \in 1..Len(seq) : v <= seq[i]

\* average_cc never increases
AverageCcNeverIncreases ==
    [][pc = "restarts" => average_cc' <= average_cc]_vars

\* C17: after the ten restarts (beta, gamma) is the optimizer result of a
\* restart whose re-evaluated average is the lowest of the ten, and
\* average_cc is that average.
C17_BestOptimized ==
    pc = "optimized" =>
        /\ beta_gamma \in 1..NumRestarts
        /\ evaluations[beta_gamma] = Least(evaluations)
        /\ average_cc = Least(evaluations)

-----------------------------------------------------------------------------
(* The final sampling loop (docs/qaoa/binary_paintshop.ipynb)                *)

\* CAR_PAIR_COUNT of the sampled instances (10 in the notebook)
SamplePairs == 2
\* the number of measured bitstrings is 1..MaxSamples (repetitions)
MaxSamples == 2

\* np.random.permutation([x for x in range(CAR_PAIR_COUNT)] * 2)
CarSequences ==
    {seq \in [1..(2 * SamplePairs) -> 0..(SamplePairs - 1)] :
        \A x \in 0..(SamplePairs - 1) : Occurrences(seq, x) = 2}

\* results.measurements["z"]: one bit per qubit and repetition
Measurements ==
    UNION {[1..m -> [0..(SamplePairs - 1) -> {0, 1}]] : m \in 1..MaxSamples}

\* best_paint_bitstring before its first assignment: the name is not bound
Unbound == << >>

InitSampling ==
    /\ car_sequence \in CarSequences
    /\ measurements = << >>
    /\ sample_idx = 1
    /\ best_result = 0
    /\ best_paint_bitstring = Unbound
    /\ pc = "run"
    /\ idx = 1
    /\ IdleSg /\ IdleCc /\ IdleGen /\ IdleFn /\ IdleRs /\ IdleOpt /\ IdlePs

exceptSmp == <<car_sequence, idx, sgVars, ccVars,
               genVars, fnVars, rsVars, optVars, psVars>>

\* results = service.run(circuit, repetitions=repetitions)
\* best_result = CAR_PAIR_COUNT
SamplingRun ==
    /\ pc = "run"
    /\ measurements' \in Measurements
    /\ best_result' = SamplePairs
    /\ pc' = "samples"
    /\ UNCHANGED <<sample_idx, best_paint_bitstring, exceptSmp>>

\* a sample with result < best_result
SampleBetter ==
    /\ pc = "samples"
    /\ sample_idx <= Len(measurements)
    /\ LET result == color_changes(measurements[sample_idx], car_sequence)
       IN  /\ result < best_result
           /\ best_result' = result
           /\ best_paint_bitstring' = measurements[sample_idx]
    /\ sample_idx' = sample_idx + 1
    /\ UNCHANGED <<pc, measurements, exceptSmp>>

\* a sample with result >= best_result
SampleNotBetter ==
    /\ pc = "samples"
    /\ sample_idx <= Len(measurements)
    /\ ~(color_changes(measurements[sample_idx], car_sequence) < best_result)
    /\ sample_idx' = sample_idx + 1
    /\ UNCHANGED <<pc, measurements, best_result, best_paint_bitstring, exceptSmp>>

\* the loop ends; the prints read best_result and best_paint_bitstring
SamplingDone ==
    /\ pc = "samples"
    /\ sample_idx > Len(measurements)
    /\ pc' = "sampled"
    /\ UNCHANGED <<smpVars, exceptSmp>>

NextSampling ==
    \/ SamplingRun
    \/ SampleBetter
    \/ SampleNotBetter
    \/ SamplingDone

SpecSampling == InitSampling /\ [][NextSampling]_vars

\* color_changes of the measured bitstrings
MeasuredChanges ==
    [i \in 1..Len(measurements) |-> color_changes(measurements[i], car_sequence)]

\* C18: after the loop best_result is the least color_changes of the
\* measured bitstrings and best_paint_bitstring is a measured bitstring
\* with that many color changes.
C18_BestSample ==
    pc = "sampled" =>
        /\ best_result = Least(MeasuredChanges)
        /\ \E i \in 1..Len(measurements) :
             /\ best_paint_bitstring = measurements[i]
             /\ MeasuredChanges[i] = best_result

\* the same when some sample has fewer than CAR_PAIR_COUNT color changes
BestSampleBelowCount ==
    (pc = "sampled" /\ Least(MeasuredChanges) < SamplePairs) =>
        /\ best_result = Least(MeasuredChanges)
        /\ \E i \in 1..Len(measurements) :
             /\ best_paint_bitstring = measurements[i]
             /\ MeasuredChanges[i] = best_result

-----------------------------------------------------------------------------
(* phase_separator (docs/qaoa/binary_paintshop.ipynb)                        *)

\* gamma is one of -MaxGamma..MaxGamma
MaxGamma == 2

\* qubit_register = cirq.LineQubit.range(CAR_PAIR_COUNT), indexed from 0
qubit_register == [i \in 0..(CarPairs - 1) |-> [x |-> i]]

\* cirq.ms(interaction * gamma).on(qubit_register[car_pair0], qubit_register[car_pair1])
MSGate_Unsigned(triple, g) ==
    [gate |-> "ms", rads |-> g,
     qubits |-> <<qubit_register[triple[1]], qubit_register[triple[2]]>>]

MSGate(triple, g) ==
    [gate |-> "ms", rads |-> triple[3] * g,
     qubits |-> <<qubit_register[triple[1]], qubit_register[triple[2]]>>]

InitPhaseSeparator ==
    /\ car_sequence \in SeqsUpTo(0..(CarPairs - 1), MaxLen)
    /\ gamma \in (-MaxGamma)..MaxGamma
    /\ gates = << >>
    /\ pc = "spin_glass"
    /\ idx = 1
    /\ IdleSg /\ IdleCc /\ IdleGen /\ IdleFn /\ IdleRs /\ IdleOpt /\ IdleSmp

\* the for loop asks spin_glass for its next triple: the generator runs up
\* to its next yield or to its end
PhaseSeparatorPull ==
    /\ Len(gates) = Len(interactions)
    /\ NextSpinGlass

\* the loop body: one gate for the triple just received
PhaseSeparatorYield ==
    /\ Len(gates) < Len(interactions)
    /\ gates' = Append(gates, MSGate(interactions[Len(gates) + 1], gamma))
    /\ UNCHANGED <<car_sequence, pc, idx, sgVars, ccVars,
                   genVars, fnVars, rsVars, optVars, smpVars, gamma>>

\* spin_glass is exhausted: phase_separator ends
PhaseSeparatorReturn ==
    /\ pc = "exhausted"
    /\ Len(gates) = Len(interactions)
    /\ pc' = "separated"
    /\ UNCHANGED <<car_sequence, idx, sgVars, ccVars, laterVars>>

NextPhaseSeparator ==
    \/ PhaseSeparatorPull
    \/ PhaseSeparatorYield
    \/ PhaseSeparatorReturn

SpecPhaseSeparator == InitPhaseSeparator /\ [][NextPhaseSeparator]_vars

\* C20: the gates are, in order, one Molmer-Sorensen gate per triple of
\* spin_glass, of angle sign * gamma on the qubits indexed by the two
\* identifiers of the triple; the two identifiers differ, so the two qubits
\* differ, and both indices are within the register.
C20_OneGatePerInteraction ==
    /\ Len(gates) <= Len(interactions)
    /\ Len(interactions) <= Len(gates) + 1
    /\ pc = "separated" =>
         /\ interactions = spin_glass(car_sequence)
         /\ Len(gates) = Len(interactions)
    /\ \A k \in 1..Len(gates) :
         /\ gates[k].gate = "ms"
         /\ gates[k].rads = interactions[k][3] * gamma
         /\ interactions[k][1] \in DOMAIN qubit_register
         /\ interactions[k][2] \in DOMAIN qubit_register
         /\ gates[k].qubits[1] = qubit_register[interactions[k][1]]
         /\ gates[k].qubits[2] = qubit_register[interactions[k][2]]
         /\ interactions[k][1] # interactions[k][2]
         /\ gates[k].qubits[1] # gates[k].qubits[2]

\* phase_separator has ended with gates of both signs of the angle
C20_Witness ==
    /\ pc = "separated"
    /\ gamma = 2
    /\ Len(gates) >= 3
    /\ \E j, k \in 1..Len(gates) : gates[j].rads = 2 /\ gates[k].rads = -2

=============================================================================
